---- MODULE Spec2Model ----
(***************************************************************************)
(* The three fixture scripts of the workspace: deploy.py, build_project.py *)
(* and run_tests.py.  One run of one script is one behaviour: the script   *)
(* and its argument vector are chosen in Init, every statement of the      *)
(* script is one action, and the run ends in pc = "exited" with what it    *)
(* wrote to standard output and standard error and its exit status.        *)
(*                                                                         *)
(* A Python str is a sequence of one-character strings, so that formatting *)
(* is concatenation and str(None) is the four characters N, o, n, e.       *)
(* argv holds sys.argv[1:], so sys.argv[i] is argv[i] for i >= 1 and       *)
(* len(sys.argv) is Len(argv) + 1.                                         *)
(***************************************************************************)
EXTENDS Integers, Sequences, FiniteSets

VARIABLES script, argv, pc, env, config, output, args, stdout, stderr, exitStatus,
          pattern, start_index, namespace, extras

vars == <<script, argv, pc, env, config, output, args, stdout, stderr, exitStatus,
          pattern, start_index, namespace, extras>>

\* The locals of parse_args(), which the positional scripts do not have.
parserVars == <<pattern, start_index, namespace, extras>>

\* The longest argument vector of a run.
MaxArgs == 4

\* ------------------------------------------------------------------ text

Newline == <<"\n">>

DeployingTo ==
    <<"D", "e", "p", "l", "o", "y", "i", "n", "g", " ", "t", "o", " ">>
Staging ==
    <<"s", "t", "a", "g", "i", "n", "g">>
BuildingWithConfig ==
    <<"B", "u", "i", "l", "d", "i", "n", "g", " ", "w", "i", "t", "h", " ", "c", "o",
      "n", "f", "i", "g", "=">>
CommaOutput ==
    <<",", " ", "o", "u", "t", "p", "u", "t", "=">>
Debug ==
    <<"d", "e", "b", "u", "g">>
Dist ==
    <<"d", "i", "s", "t">>
RunningTestsVerbose ==
    <<"R", "u", "n", "n", "i", "n", "g", " ", "t", "e", "s", "t", "s", ":", " ", "v",
      "e", "r", "b", "o", "s", "e", "=">>
CommaFilter ==
    <<",", " ", "f", "i", "l", "t", "e", "r", "=">>
NoneText ==
    <<"N", "o", "n", "e">>
Prog ==
    <<"r", "u", "n", "_", "t", "e", "s", "t", "s", ".", "p", "y">>
UsageLine ==
    <<"u", "s", "a", "g", "e", ":", " ", "r", "u", "n", "_", "t", "e", "s", "t", "s",
      ".", "p", "y", " ", "[", "-", "h", "]", " ", "[", "-", "-", "v", "e", "r", "b",
      "o", "s", "e", " ", "V", "E", "R", "B", "O", "S", "E", "]", " ", "[", "-", "-",
      "f", "i", "l", "t", "e", "r", " ", "F", "I", "L", "T", "E", "R", "]", "\n">>
HelpBody ==
    <<"\n", "R", "u", "n", " ", "t", "e", "s", "t", "s", "\n", "\n", "o", "p", "t",
      "i", "o", "n", "s", ":", "\n", " ", " ", "-", "h", ",", " ", "-", "-", "h", "e",
      "l", "p", " ", " ", " ", " ", " ", " ", " ", " ", " ", "s", "h", "o", "w", " ",
      "t", "h", "i", "s", " ", "h", "e", "l", "p", " ", "m", "e", "s", "s", "a", "g",
      "e", " ", "a", "n", "d", " ", "e", "x", "i", "t", "\n", " ", " ", "-", "-", "v",
      "e", "r", "b", "o", "s", "e", " ", "V", "E", "R", "B", "O", "S", "E", " ", " ",
      "E", "n", "a", "b", "l", "e", " ", "v", "e", "r", "b", "o", "s", "e", " ", "o",
      "u", "t", "p", "u", "t", "\n", " ", " ", "-", "-", "f", "i", "l", "t", "e", "r",
      " ", "F", "I", "L", "T", "E", "R", " ", " ", " ", " ", "F", "i", "l", "t", "e",
      "r", " ", "t", "e", "s", "t", "s", " ", "b", "y", " ", "p", "a", "t", "t", "e",
      "r", "n", "\n">>
ErrorInfix ==
    <<":", " ", "e", "r", "r", "o", "r", ":", " ">>
ArgumentPrefix ==
    <<"a", "r", "g", "u", "m", "e", "n", "t", " ">>
ColonSpace ==
    <<":", " ">>
ExpectedOneArgument ==
    <<"e", "x", "p", "e", "c", "t", "e", "d", " ", "o", "n", "e", " ", "a", "r", "g",
      "u", "m", "e", "n", "t">>
IgnoredExplicitArgument ==
    <<"i", "g", "n", "o", "r", "e", "d", " ", "e", "x", "p", "l", "i", "c", "i", "t",
      " ", "a", "r", "g", "u", "m", "e", "n", "t", " ">>
UnrecognizedArguments ==
    <<"u", "n", "r", "e", "c", "o", "g", "n", "i", "z", "e", "d", " ", "a", "r", "g",
      "u", "m", "e", "n", "t", "s", ":", " ">>
AmbiguousOption ==
    <<"a", "m", "b", "i", "g", "u", "o", "u", "s", " ", "o", "p", "t", "i", "o", "n",
      ":", " ">>
CouldMatch ==
    <<" ", "c", "o", "u", "l", "d", " ", "m", "a", "t", "c", "h", " ">>
CommaSpace ==
    <<",", " ">>
OptH ==
    <<"-", "h">>
OptHelp ==
    <<"-", "-", "h", "e", "l", "p">>
OptVerbose ==
    <<"-", "-", "v", "e", "r", "b", "o", "s", "e">>
OptFilter ==
    <<"-", "-", "f", "i", "l", "t", "e", "r">>
DashDash ==
    <<"-", "-">>

\* A name that is not bound yet (no character is longer than one letter).
Unbound == <<"<unbound>">>

\* The number of lines of a text: print ends each of its texts with a newline.
LineCount(text) == Cardinality({i \in 1..Len(text) : text[i] = "\n"})

\* All argument vectors of at most n arguments drawn from S.
ArgVectors(S, n) == UNION {[1..k -> S] : k \in 0..n}

\* ---------------------------------------------------------------- inputs

\* Arguments given to the positional scripts: the empty string, the text of
\* the default environment, the values of the documented scenarios, one that
\* starts with "-" and one with a newline.
PositionalArgs ==
    { <<>>,
      Staging,
      <<"p", "r", "o", "d">>,
      <<"r", "e", "l", "e", "a", "s", "e">>,
      <<"o", "u", "t", "/">>,
      <<"-", "x">>,
      <<"a", "\n", "b">> }

\* Arguments given to run_tests.py: the empty string, the values of the
\* documented scenario, the text of None, strings that start with "-" (an
\* unknown option, a negative number, the "--" separator), the three long
\* options, an option with its value after "=", an abbreviated option and
\* a prefix of all three long options.
RunTestsArgs ==
    { <<>>,
      <<"t", "r", "u", "e">>,
      <<"f", "o", "o">>,
      NoneText,
      <<"-", "x">>,
      <<"-", "1">>,
      DashDash,
      OptVerbose,
      OptFilter,
      OptHelp,
      OptFilter \o <<"=", "-", "x">>,
      <<"-", "-", "v", "e", "r", "b">>,
      <<"-", "-", "=">> }

Scripts == {"deploy.py", "build_project.py", "run_tests.py"}

InputsOf(s) ==
    IF s = "run_tests.py" THEN ArgVectors(RunTestsArgs, MaxArgs)
    ELSE ArgVectors(PositionalArgs, MaxArgs)

\* ----------------------------------------------------------------- print

\* print(text): the text and a newline, appended to standard output.
WriteLine(out, text) == out \o text \o Newline

\* --------------------------------------------------------------- deploy.py

\* env = sys.argv[1] or "staging": an empty argument takes the default.
DeployEnvOrDefault(av) == IF Len(av) + 1 > 1 /\ av[1] # <<>> THEN av[1] ELSE Staging

\* env = sys.argv[-1]: the last argument, not the first.
DeployEnvLast(av) == IF Len(av) + 1 > 1 THEN av[Len(av)] ELSE Staging

\* env = sys.argv[1] if len(sys.argv) > 1 else "staging"
DeployEnv(av) == IF Len(av) + 1 > 1 THEN av[1] ELSE Staging

\* f"Deploying to {env}"
DeployText(e) == DeployingTo \o e

DeployReadEnv ==
    /\ script = "deploy.py"
    /\ pc = "start"
    /\ env' = DeployEnv(argv)
    /\ pc' = "print"
    /\ UNCHANGED <<script, argv, config, output, args, stdout, stderr, exitStatus, parserVars>>

DeployPrint ==
    /\ script = "deploy.py"
    /\ pc = "print"
    /\ stdout' = WriteLine(stdout, DeployText(env))
    /\ pc' = "end"
    /\ UNCHANGED <<script, argv, env, config, output, args, stderr, exitStatus, parserVars>>

\* -------------------------------------------------------- build_project.py

\* config read only when both arguments are given.
BuildConfigNeedsBoth(av) == IF Len(av) + 1 > 2 THEN av[1] ELSE Debug

\* config = sys.argv[1] if len(sys.argv) > 1 else "debug"
BuildConfig(av) == IF Len(av) + 1 > 1 THEN av[1] ELSE Debug

\* output with the default of config.
BuildOutputDefaultDebug(av) == IF Len(av) + 1 > 2 THEN av[2] ELSE Debug

\* output = sys.argv[2] if len(sys.argv) > 2 else "dist"
BuildOutput(av) == IF Len(av) + 1 > 2 THEN av[2] ELSE Dist

\* The two values in each other's place.
BuildTextSwapped(c, o) == BuildingWithConfig \o o \o CommaOutput \o c

\* f"Building with config={config}, output={output}"
BuildText(c, o) == BuildingWithConfig \o c \o CommaOutput \o o

BuildReadConfig ==
    /\ script = "build_project.py"
    /\ pc = "start"
    /\ config' = BuildConfig(argv)
    /\ pc' = "output"
    /\ UNCHANGED <<script, argv, env, output, args, stdout, stderr, exitStatus, parserVars>>

BuildReadOutput ==
    /\ script = "build_project.py"
    /\ pc = "output"
    /\ output' = BuildOutput(argv)
    /\ pc' = "print"
    /\ UNCHANGED <<script, argv, env, config, args, stdout, stderr, exitStatus, parserVars>>

BuildPrint ==
    /\ script = "build_project.py"
    /\ pc = "print"
    /\ stdout' = WriteLine(stdout, BuildText(config, output))
    /\ pc' = "end"
    /\ UNCHANGED <<script, argv, env, config, output, args, stderr, exitStatus, parserVars>>

\* ------------------------------------------------------------- run_tests.py

\* Python's None, and the empty list (no character is longer than one letter).
None == <<"<None>">>
EmptyList == <<"<[]>">>

\* format(value) in an f-string: the text of a str is itself.
Str(v) ==
    IF v = None THEN NoneText
    ELSE IF v = EmptyList THEN <<"[", "]">>
    ELSE v

\* repr(s) of a str without quotes, backslashes or control characters.
Repr(s) == <<"'">> \o s \o <<"'">>

StartsWith(s, p) == Len(p) <= Len(s) /\ SubSeq(s, 1, Len(p)) = p

Contains(s, c) == \E i \in 1..Len(s) : s[i] = c

\* The index of the first c in s, which holds one.
IndexOf(s, c) == CHOOSE i \in 1..Len(s) : s[i] = c /\ \A j \in 1..(i - 1) : s[j] # c

\* s.split(c, 1) of an s that holds c.
SplitBefore(s, c) == SubSeq(s, 1, IndexOf(s, c) - 1)
SplitAfter(s, c) == SubSeq(s, IndexOf(s, c) + 1, Len(s))

\* ' '.join(strings) and ', '.join(strings).
RECURSIVE Join(_, _)
Join(sep, strings) ==
    IF strings = <<>> THEN <<>>
    ELSE IF Len(strings) = 1 THEN strings[1]
    ELSE strings[1] \o sep \o Join(sep, Tail(strings))

Digits == {"0", "1", "2", "3", "4", "5", "6", "7", "8", "9"}

AllDigits(s) == \A i \in 1..Len(s) : s[i] \in Digits

\* The parser's _negative_number_matcher, '^-\d+$|^-\d*\.\d+$' ($ also matches
\* before a final newline).
NegativeNumber(s) ==
    LET t == IF Len(s) > 0 /\ s[Len(s)] = "\n" THEN SubSeq(s, 1, Len(s) - 1) ELSE s
        r == SubSeq(t, 2, Len(t))
    IN  /\ Len(t) >= 2
        /\ t[1] = "-"
        /\ \/ AllDigits(r)
           \/ \E k \in 1..(Len(r) - 1) :
                /\ r[k] = "."
                /\ AllDigits(SubSeq(r, 1, k - 1))
                /\ AllDigits(SubSeq(r, k + 1, Len(r)))

\* parser._option_string_actions, in the order the options were added: the
\* help option of every ArgumentParser, then --verbose and --filter.
OptionStrings == <<OptH, OptHelp, OptVerbose, OptFilter>>

IsOptionString(s) == \E i \in 1..Len(OptionStrings) : OptionStrings[i] = s

\* The action of an option string: "help" (nargs 0, prints the help and exits)
\* or the dest that a store action (nargs None) sets.
ActionOf(os) ==
    IF os = OptVerbose THEN "verbose"
    ELSE IF os = OptFilter THEN "filter"
    ELSE "help"

\* '/'.join(action.option_strings), the name of an action in an error.
ActionName(action) ==
    IF action = "verbose" THEN OptVerbose
    ELSE IF action = "filter" THEN OptFilter
    ELSE OptH \o <<"/">> \o OptHelp

OptionTuple(action, option_string, explicit_arg) ==
    [kind |-> "O", action |-> action, option_string |-> option_string,
     explicit_arg |-> explicit_arg]

\* What one option string adds to _get_option_tuples(s), s of two characters
\* or more that starts with "-".
OptionTuplesOf(os, s) ==
    IF s[2] = "-"
    THEN LET option_prefix == IF Contains(s, "=") THEN SplitBefore(s, "=") ELSE s
             explicit_arg == IF Contains(s, "=") THEN SplitAfter(s, "=") ELSE None
         IN  IF StartsWith(os, option_prefix)
             THEN <<OptionTuple(ActionOf(os), os, explicit_arg)>>
             ELSE <<>>
    ELSE IF os = SubSeq(s, 1, 2)
         THEN <<OptionTuple(ActionOf(os), os, SubSeq(s, 3, Len(s)))>>
         ELSE IF StartsWith(os, s)
              THEN <<OptionTuple(ActionOf(os), os, None)>>
              ELSE <<>>

GetOptionTuples(s) ==
    OptionTuplesOf(OptionStrings[1], s) \o OptionTuplesOf(OptionStrings[2], s)
    \o OptionTuplesOf(OptionStrings[3], s) \o OptionTuplesOf(OptionStrings[4], s)

Positional == [kind |-> "A"]

\* 'ambiguous option: %(option)s could match %(matches)s'
AmbiguousMessage(s, tuples) ==
    AmbiguousOption \o s \o CouldMatch
    \o Join(CommaSpace, [i \in 1..Len(tuples) |-> tuples[i].option_string])

\* Only the exact option strings are options; every other string is an argument.
ParseOptionalExactOnly(s) ==
    IF IsOptionString(s) THEN OptionTuple(ActionOf(s), s, None) ELSE Positional

\* _parse_optional(arg_string): "A" for an argument, "O" for an option (action
\* "none" when the parser has no such option), "ambiguous" for the error.
ParseOptional(s) ==
    IF s = <<>> THEN Positional
    ELSE IF s[1] # "-" THEN Positional
    ELSE IF IsOptionString(s) THEN OptionTuple(ActionOf(s), s, None)
    ELSE IF Len(s) = 1 THEN Positional
    ELSE IF Contains(s, "=") /\ IsOptionString(SplitBefore(s, "="))
         THEN OptionTuple(ActionOf(SplitBefore(s, "=")), SplitBefore(s, "="),
                          SplitAfter(s, "="))
    ELSE LET option_tuples == GetOptionTuples(s)
         IN  IF Len(option_tuples) > 1
             THEN [kind |-> "ambiguous", message |-> AmbiguousMessage(s, option_tuples)]
             ELSE IF Len(option_tuples) = 1 THEN option_tuples[1]
             ELSE IF NegativeNumber(s) THEN Positional
             ELSE IF Contains(s, " ") THEN Positional
             ELSE OptionTuple("none", s, None)

\* The pattern of the arg strings from index i on: every string after a "--"
\* is an argument, and the "--" itself is "-".
RECURSIVE ArgStringsPattern(_, _, _)
ArgStringsPattern(av, i, after_dashes) ==
    IF i > Len(av) THEN <<>>
    ELSE IF after_dashes THEN <<Positional>> \o ArgStringsPattern(av, i + 1, TRUE)
    ELSE IF av[i] = DashDash THEN <<[kind |-> "-"]>> \o ArgStringsPattern(av, i + 1, TRUE)
    ELSE <<ParseOptional(av[i])>> \o ArgStringsPattern(av, i + 1, FALSE)

\* str(ArgumentError(action, message))
ArgumentError(action, message) ==
    [kind |-> "error",
     message |-> ArgumentPrefix \o ActionName(action) \o ColonSpace \o message]

ActionTuple(action, arg_strings) == [action |-> action, args |-> arg_strings]

\* consume_optional(start_index) up to its calls of take_action: the action
\* tuples of the option at index start and the index where its arguments stop,
\* or the error raised; an option the parser does not have is only stepped
\* over.  A store action takes one argument: the explicit one
\* (after "=") or the next arg string when that is an argument; the help action
\* takes none, and after a single-dash -h the explicit argument is read as
\* further single-dash options.
RECURSIVE ConsumeOptional(_, _, _, _, _, _, _)
ConsumeOptional(av, pat, start, action, option_string, explicit_arg, action_tuples) ==
    IF action = "none" THEN [kind |-> "unknown", stop |-> start + 1]
    ELSE IF explicit_arg # None
    THEN LET arg_count == IF action = "help" THEN 0 ELSE 1
         IN  IF arg_count = 0 /\ option_string[2] # "-" /\ explicit_arg # <<>>
             THEN LET next_option == <<option_string[1], explicit_arg[1]>>
                      new_explicit_arg ==
                          IF Len(explicit_arg) > 1 THEN Tail(explicit_arg) ELSE None
                  IN  IF IsOptionString(next_option)
                      THEN ConsumeOptional(av, pat, start,
                                           ActionOf(next_option), next_option,
                                           new_explicit_arg,
                                           Append(action_tuples, ActionTuple(action, <<>>)))
                      ELSE ArgumentError(action,
                                         IgnoredExplicitArgument \o Repr(explicit_arg))
             ELSE IF arg_count = 1
                  THEN [kind |-> "consumed",
                        action_tuples |->
                            Append(action_tuples, ActionTuple(action, <<explicit_arg>>)),
                        stop |-> start + 1]
                  ELSE ArgumentError(action,
                                     IgnoredExplicitArgument \o Repr(explicit_arg))
    ELSE IF action = "help"
         THEN [kind |-> "consumed",
               action_tuples |-> Append(action_tuples, ActionTuple(action, <<>>)),
               stop |-> start + 1]
         ELSE IF start + 1 <= Len(av) /\ pat[start + 1].kind = "A"
              THEN [kind |-> "consumed",
                    action_tuples |->
                        Append(action_tuples, ActionTuple(action, <<av[start + 1]>>)),
                    stop |-> start + 2]
              ELSE ArgumentError(action, ExpectedOneArgument)

\* _get_values(action, arg_strings) of a store action: a first "--" is taken
\* out, one string left is the value, none left is the empty list.
GetValues(arg_strings) ==
    LET kept == SelectSeq(arg_strings, LAMBDA a : a # DashDash)
    IN  IF Len(kept) = 1 THEN kept[1] ELSE EmptyList

\* The values stored by the order of the options, not by their dest.
StoreInOrder(ns, dest, values) ==
    IF ns.verbose = None
    THEN [ns EXCEPT !.verbose = values]
    ELSE [ns EXCEPT !.filter = values]

\* setattr(namespace, self.dest, values) of a store action.
Store(ns, dest, values) == [ns EXCEPT ![dest] = values]

\* take_action over the action tuples: the help action prints the help and
\* exits, a store action sets its dest in the namespace.
RECURSIVE TakeActions(_, _)
TakeActions(action_tuples, ns) ==
    IF action_tuples = <<>> THEN [kind |-> "taken", namespace |-> ns]
    ELSE IF Head(action_tuples).action = "help" THEN [kind |-> "help"]
    ELSE TakeActions(Tail(action_tuples),
                     Store(ns, Head(action_tuples).action,
                           GetValues(Head(action_tuples).args)))

Min(S) == CHOOSE x \in S : \A y \in S : x <= y

\* The two store actions with default=''.
DefaultNamespaceEmptyStrings == [verbose |-> <<>>, filter |-> <<>>]

\* The defaults of the two store actions: neither has a default.
DefaultNamespace == [verbose |-> None, filter |-> None]

\* f"Running tests: verbose={args.verbose}, filter={args.filter}"
RunTestsText(a) ==
    RunningTestsVerbose \o Str(a.verbose) \o CommaFilter \o Str(a.filter)

\* An error that exits like a success.
ErrorStatusZero == <<0>>

\* parser.exit() of the help action, and parser.error()'s exit(2, ...).
HelpStatus == <<0>>
ErrorStatus == <<2>>

\* parser.error(message): the usage and the message on standard error.
ErrorText(message) == UsageLine \o Prog \o ErrorInfix \o message \o Newline

\* The indices of the option strings from start_index on.
LaterOptions == {i \in start_index..Len(argv) : pattern[i].kind = "O"}

\* consume_optional at the option string of index i.
ConsumeAt(i) ==
    ConsumeOptional(argv, pattern, i, pattern[i].action, pattern[i].option_string,
                    pattern[i].explicit_arg, <<>>)

\* parse_args() starts: the namespace gets the defaults and the arg strings
\* are classified, none of them ambiguous.
ParseClassify ==
    /\ script = "run_tests.py"
    /\ pc = "start"
    /\ \E classified \in {ArgStringsPattern(argv, 1, FALSE)} :
         /\ \A i \in 1..Len(argv) : classified[i].kind # "ambiguous"
         /\ pattern' = classified
    /\ namespace' = DefaultNamespace
    /\ start_index' = 1
    /\ pc' = "consume"
    /\ UNCHANGED <<script, argv, env, config, output, args, extras, stdout, stderr,
                   exitStatus>>

\* An arg string is a prefix of several options: error() while the arg
\* strings are classified, before any option is consumed.
ParseAmbiguous ==
    /\ script = "run_tests.py"
    /\ pc = "start"
    /\ \E classified \in {ArgStringsPattern(argv, 1, FALSE)} :
         /\ {i \in 1..Len(argv) : classified[i].kind = "ambiguous"} # {}
         /\ stderr' = stderr \o ErrorText(
                classified[Min({i \in 1..Len(argv) :
                                  classified[i].kind = "ambiguous"})].message)
    /\ exitStatus' = ErrorStatus
    /\ pc' = "exited"
    /\ UNCHANGED <<script, argv, env, config, output, args, pattern, start_index,
                   namespace, extras, stdout>>

\* One turn of the loop of _parse_known_args at an option the parser does not
\* have: the strings before it and the option string itself are extras.
ParseSkipUnknown ==
    /\ script = "run_tests.py"
    /\ pc = "consume"
    /\ LaterOptions # {}
    /\ \E next_index \in {Min(LaterOptions)} :
       \E consumed \in {ConsumeAt(next_index)} :
         /\ consumed.kind = "unknown"
         /\ extras' = extras \o SubSeq(argv, start_index, next_index)
         /\ start_index' = consumed.stop
    /\ UNCHANGED <<script, argv, pc, env, config, output, args, pattern, namespace,
                   stdout, stderr, exitStatus>>

\* One turn of the loop at a store option that has its argument: the strings
\* before it are extras (the parser has no positionals) and the value is
\* stored.
ParseConsumeStore ==
    /\ script = "run_tests.py"
    /\ pc = "consume"
    /\ LaterOptions # {}
    /\ \E next_index \in {Min(LaterOptions)} :
       \E consumed \in {ConsumeAt(next_index)} :
         /\ consumed.kind = "consumed"
         /\ \E taken \in {TakeActions(consumed.action_tuples, namespace)} :
              /\ taken.kind = "taken"
              /\ namespace' = taken.namespace
         /\ extras' = extras \o SubSeq(argv, start_index, next_index - 1)
         /\ start_index' = consumed.stop
    /\ UNCHANGED <<script, argv, pc, env, config, output, args, pattern, stdout,
                   stderr, exitStatus>>

\* One turn of the loop at the help option: print_help() to standard output
\* and exit().
ParseConsumeHelp ==
    /\ script = "run_tests.py"
    /\ pc = "consume"
    /\ LaterOptions # {}
    /\ \E next_index \in {Min(LaterOptions)} :
       \E consumed \in {ConsumeAt(next_index)} :
         /\ consumed.kind = "consumed"
         /\ TakeActions(consumed.action_tuples, namespace).kind = "help"
         /\ extras' = extras \o SubSeq(argv, start_index, next_index - 1)
    /\ stdout' = stdout \o UsageLine \o HelpBody
    /\ exitStatus' = HelpStatus
    /\ pc' = "exited"
    /\ UNCHANGED <<script, argv, env, config, output, args, pattern, start_index,
                   namespace, stderr>>

\* One turn of the loop at an option whose argument is missing or not taken:
\* the ArgumentError goes to error().
ParseConsumeError ==
    /\ script = "run_tests.py"
    /\ pc = "consume"
    /\ LaterOptions # {}
    /\ \E next_index \in {Min(LaterOptions)} :
       \E consumed \in {ConsumeAt(next_index)} :
         /\ consumed.kind = "error"
         /\ extras' = extras \o SubSeq(argv, start_index, next_index - 1)
         /\ stderr' = stderr \o ErrorText(consumed.message)
    /\ exitStatus' = ErrorStatus
    /\ pc' = "exited"
    /\ UNCHANGED <<script, argv, env, config, output, args, pattern, start_index,
                   namespace, stdout>>

\* After the last option every arg string is consumed and none is extra:
\* args = parser.parse_args() gets the namespace.
ParseReturn ==
    /\ script = "run_tests.py"
    /\ pc = "consume"
    /\ LaterOptions = {}
    /\ extras \o SubSeq(argv, start_index, Len(argv)) = <<>>
    /\ args' = namespace
    /\ pc' = "print"
    /\ UNCHANGED <<script, argv, env, config, output, pattern, start_index, namespace,
                   extras, stdout, stderr, exitStatus>>

\* After the last option there are extras: parse_args() calls error() with
\* 'unrecognized arguments: %s'.
ParseUnrecognized ==
    /\ script = "run_tests.py"
    /\ pc = "consume"
    /\ LaterOptions = {}
    /\ extras \o SubSeq(argv, start_index, Len(argv)) # <<>>
    /\ extras' = extras \o SubSeq(argv, start_index, Len(argv))
    /\ stderr' = stderr \o ErrorText(UnrecognizedArguments \o Join(<<" ">>, extras'))
    /\ exitStatus' = ErrorStatus
    /\ pc' = "exited"
    /\ UNCHANGED <<script, argv, env, config, output, args, pattern, start_index,
                   namespace, stdout>>

RunTestsPrint ==
    /\ script = "run_tests.py"
    /\ pc = "print"
    /\ stdout' = WriteLine(stdout, RunTestsText(args))
    /\ pc' = "end"
    /\ UNCHANGED <<script, argv, env, config, output, args, pattern, start_index,
                   namespace, extras, stderr, exitStatus>>

\* ------------------------------------------------------------ end of script

\* The status of a script that runs off its last statement.
EndStatus == <<0>>

\* The script waits at its end and never exits.
ScriptEndWaits ==
    /\ pc = "end"
    /\ UNCHANGED vars

\* The interpreter exits with status 0 when the script's last statement is done.
ScriptEnd ==
    /\ pc = "end"
    /\ exitStatus' = EndStatus
    /\ pc' = "exited"
    /\ UNCHANGED <<script, argv, env, config, output, args, stdout, stderr, parserVars>>

\* ------------------------------------------------------------- whole runs

\* What a run of each script on the argument vector av leaves: its standard
\* output and its exit status.
DeployRun(av) ==
    [stdout |-> WriteLine(<<>>, DeployText(DeployEnv(av))), exitStatus |-> EndStatus]

BuildRun(av) ==
    [stdout |-> WriteLine(<<>>, BuildText(BuildConfig(av), BuildOutput(av))),
     exitStatus |-> EndStatus]

\* ------------------------------------------------------------ specification

Init ==
    /\ script \in Scripts
    /\ argv \in InputsOf(script)
    /\ pc = "start"
    /\ env = Unbound
    /\ config = Unbound
    /\ output = Unbound
    /\ args = [verbose |-> Unbound, filter |-> Unbound]
    /\ pattern = <<>>
    /\ start_index = 0
    /\ namespace = [verbose |-> Unbound, filter |-> Unbound]
    /\ extras = <<>>
    /\ stdout = <<>>
    /\ stderr = <<>>
    /\ exitStatus = <<>>

Next ==
    \/ DeployReadEnv
    \/ DeployPrint
    \/ BuildReadConfig
    \/ BuildReadOutput
    \/ BuildPrint
    \/ ParseClassify
    \/ ParseAmbiguous
    \/ ParseSkipUnknown
    \/ ParseConsumeStore
    \/ ParseConsumeHelp
    \/ ParseConsumeError
    \/ ParseReturn
    \/ ParseUnrecognized
    \/ RunTestsPrint
    \/ ScriptEnd

Spec == Init /\ [][Next]_vars

\* The runs on fewer than MaxArgs arguments.
FairInit == Init /\ Len(argv) < MaxArgs

\* A started script is run to its end: the interpreter takes every step that
\* is enabled.
FairSpec == FairInit /\ [][Next]_vars /\ WF_vars(Next)

\* ------------------------------------------------------------------ claims

DeployingToStagingLine ==
    <<"D", "e", "p", "l", "o", "y", "i", "n", "g", " ", "t", "o", " ", "s", "t", "a",
      "g", "i", "n", "g", "\n">>
DeployingToProdLine ==
    <<"D", "e", "p", "l", "o", "y", "i", "n", "g", " ", "t", "o", " ", "p", "r", "o",
      "d", "\n">>
BuildDefaultsLine ==
    <<"B", "u", "i", "l", "d", "i", "n", "g", " ", "w", "i", "t", "h", " ", "c", "o",
      "n", "f", "i", "g", "=", "d", "e", "b", "u", "g", ",", " ", "o", "u", "t", "p",
      "u", "t", "=", "d", "i", "s", "t", "\n">>
BuildReleaseLine ==
    <<"B", "u", "i", "l", "d", "i", "n", "g", " ", "w", "i", "t", "h", " ", "c", "o",
      "n", "f", "i", "g", "=", "r", "e", "l", "e", "a", "s", "e", ",", " ", "o", "u",
      "t", "p", "u", "t", "=", "o", "u", "t", "/", "\n">>
RunTestsUnsetLine ==
    <<"R", "u", "n", "n", "i", "n", "g", " ", "t", "e", "s", "t", "s", ":", " ", "v",
      "e", "r", "b", "o", "s", "e", "=", "N", "o", "n", "e", ",", " ", "f", "i", "l",
      "t", "e", "r", "=", "N", "o", "n", "e", "\n">>
RunTestsScenarioLine ==
    <<"R", "u", "n", "n", "i", "n", "g", " ", "t", "e", "s", "t", "s", ":", " ", "v",
      "e", "r", "b", "o", "s", "e", "=", "t", "r", "u", "e", ",", " ", "f", "i", "l",
      "t", "e", "r", "=", "f", "o", "o", "\n">>

Exited == pc = "exited"

\* The result of the run, once it has exited.
Result == [stdout |-> stdout, exitStatus |-> exitStatus]

\* A value that starts with "-".
Dashed(v) == v # <<>> /\ v[1] = "-"

MinusOne == <<"-", "1">>

\* The newlines of the values a positional script echoes: the first argument
\* of deploy.py, the first two of build_project.py.
EchoedNewlines ==
    LET echoed == IF script = "deploy.py" THEN 1 ELSE 2
        shown == SubSeq(argv, 1, IF Len(argv) < echoed THEN Len(argv) ELSE echoed)
    IN  LineCount(Join(<<>>, shown))

C3_BuildDefaults ==
    (Exited /\ script = "build_project.py" /\ argv = <<>>) =>
        stdout = BuildDefaultsLine /\ exitStatus = <<0>>

C3_Witness ==
    Exited /\ script = "build_project.py" /\ argv = <<>> /\ stdout # <<>>

\* C4: build_project.py with two arguments prints the first as config and the
\* second as output, in that order and as they are.
C4_BuildEchoesBoth ==
    (Exited /\ script = "build_project.py" /\ Len(argv) = 2) =>
        /\ stdout = BuildingWithConfig \o argv[1] \o CommaOutput \o argv[2] \o Newline
        /\ argv = <<(<<"r", "e", "l", "e", "a", "s", "e">>), (<<"o", "u", "t", "/">>)>>
             => stdout = BuildReleaseLine

\* build_project.py has exited after a run with two different arguments, the
\* second of them empty.
C4_Witness ==
    /\ Exited
    /\ script = "build_project.py"
    /\ Len(argv) = 2
    /\ argv[1] # argv[2]
    /\ argv[2] = <<>>

\* The run was run_tests.py --verbose V --filter F.
VerboseThenFilter ==
    /\ script = "run_tests.py"
    /\ Len(argv) = 4
    /\ argv[1] = OptVerbose
    /\ argv[3] = OptFilter

RunTestsLine(v, f) == RunningTestsVerbose \o v \o CommaFilter \o f \o Newline

C7_Terminates == <>Exited

\* A run of each script's longest path has exited: build_project.py reads two
\* arguments and prints.
C7_Witness ==
    Exited /\ script = "build_project.py" /\ Len(argv) = 2 /\ stdout # <<>>

\* C8: build_project.py with one argument prints it as config and the default
\* dist as output.
C8_BuildOneArgument ==
    (Exited /\ script = "build_project.py" /\ Len(argv) = 1) =>
        stdout = BuildingWithConfig \o argv[1] \o CommaOutput \o Dist \o Newline

C8_Witness ==
    /\ Exited
    /\ script = "build_project.py"
    /\ Len(argv) = 1
    /\ argv[1] = <<"r", "e", "l", "e", "a", "s", "e">>

\* C9: the positional scripts ignore surplus arguments: the output and the
\* exit status of deploy.py are those of the run on its first argument alone,
\* and those of build_project.py are those of the run on its first two.
C9_SurplusArgumentsIgnored ==
    /\ (Exited /\ script = "deploy.py") =>
         \A k \in 1..Len(argv) : Result = DeployRun(SubSeq(argv, 1, k))
    /\ (Exited /\ script = "build_project.py") =>
         \A k \in 2..Len(argv) : Result = BuildRun(SubSeq(argv, 1, k))

\* build_project.py has exited after a run with two surplus arguments that
\* differ from the first two.
C9_Witness ==
    /\ Exited
    /\ script = "build_project.py"
    /\ Len(argv) = 4
    /\ argv[3] # argv[1]
    /\ argv[4] # argv[2]

\* The run was run_tests.py with the two flags, each with a value, in either
\* order.
BothFlags ==
    /\ script = "run_tests.py"
    /\ Len(argv) = 4
    /\ {argv[1], argv[3]} = {OptVerbose, OptFilter}

\* The value given after option string os in a run with both flags.
ValueAfter(os) == IF argv[1] = os THEN argv[2] ELSE argv[4]

\* C10: the order of the two flags of run_tests.py does not matter: what the
\* run prints and its exit status are fixed by the value after --verbose and
\* the value after --filter alone, the same in either order, and a line that
\* is printed has the value of --verbose first and that of --filter second.
C10_FlagOrderIrrelevant ==
    (Exited /\ BothFlags) =>
        LET V == ValueAfter(OptVerbose)
            F == ValueAfter(OptFilter)
        IN  IF (~Dashed(V) \/ V = MinusOne) /\ (~Dashed(F) \/ F = MinusOne)
            THEN stdout = RunTestsLine(V, F) /\ exitStatus = <<0>>
            ELSE stdout = <<>> /\ exitStatus = <<2>>

\* run_tests.py --filter foo --verbose true has exited and has printed.
C10_Witness ==
    /\ Exited
    /\ argv = <<OptFilter, (<<"f", "o", "o">>), OptVerbose, (<<"t", "r", "u", "e">>)>>
    /\ script = "run_tests.py"
    /\ stdout # <<>>

====
